---- MODULE Spec2Model ----
(***************************************************************************)
(* The one2track device tracker: one GpsCoordinator polls the account's    *)
(* devices and every One2TrackSensor reconciles its cached record against  *)
(* the coordinator's data, derives its location label and looks up its     *)
(* zone in the background.                                                 *)
(*                                                                         *)
(* GpsCoordinator extends Home Assistant's DataUpdateCoordinator and       *)
(* One2TrackSensor extends CoordinatorEntity.  What the subclasses inherit *)
(* (the refresh bookkeeping around _async_update_data, the listener list,  *)
(* the refresh timer, the request debouncer) is modelled where the         *)
(* subclass binds to it and is marked "inherited" in the comments.         *)
(***************************************************************************)
EXTENDS Naturals, Sequences, FiniteSets, TLC

VARIABLES
    data,                 \* GpsCoordinator.data: None or the last returned snapshot
    last_update,          \* GpsCoordinator.last_update: 0 is None, else a timestamp
    first_boot,           \* GpsCoordinator.first_boot
    last_update_success,  \* inherited: DataUpdateCoordinator.last_update_success
    listeners,            \* inherited: the entities subscribed to the coordinator
    timer,                \* inherited: TRUE while the refresh timer is armed
    refreshes,            \* the refresh cycles whose gps_api.update() is outstanding
    now,                  \* the wall clock read by datetime.now()
    _device,              \* One2TrackSensor._device, per entity
    _zone_name,           \* One2TrackSensor._zone_name, per entity
    zone_tasks,           \* per entity, the _async_update_zone tasks awaiting the lookup
    removed,              \* the entities for which async_will_remove_from_hass has run
    event                 \* what the last step did, as the host and the log observe it

vars == <<data, last_update, first_boot, last_update_success, listeners, timer,
          refreshes, now, _device, _zone_name, zone_tasks, removed, event>>

-----------------------------------------------------------------------------
\* Bounds of the model.

MaxClock == 2         \* refresh cycles begun in one behaviour
MaxTasks == 2         \* zone lookups outstanding per entity
MaxFetches == 2       \* refresh cycles outstanding at once
MaxSnapshotLen == 2   \* records in one snapshot

-----------------------------------------------------------------------------
\* Program constants.

always_update == FALSE   \* GpsCoordinator.__init__ passes always_update=False
update == TRUE           \* the local "update" of _async_update_data

-----------------------------------------------------------------------------
\* Device records and snapshots, as gps_api.update() returns them.

UUIDS == {"a1", "b2"}

\* A record is a dict; "phone_number" stands for the keys a record may or may
\* not carry, the other keys are the ones the entity reads.  The account of
\* the model has two watches: a1 reports over WIFI from one place, over GPS
\* from another, and over GPS with a latitude that is no number; b2 reports a
\* longitude that is no number.
Record(u, lt, addr, lat, lon) ==
    [uuid |-> u, name |-> "watch",
     last_location |-> [location_type |-> lt, address |-> addr,
                        latitude |-> lat, longitude |-> lon]]

RecordsOf(u) ==
    IF u = "a1"
    THEN { Record(u, "WIFI", "123 Main", "51.9", "4.9"),
           Record(u, "GPS", "456 Oak", "52.1", "4.9") @@ ("phone_number" :> "0612345678"),
           Record(u, "GPS", "456 Oak", "bad", "4.9") }
    ELSE { Record(u, "GPS", "9 Elm", "52.1", "bad") }

Records == UNION { RecordsOf(u) : u \in UUIDS }

\* uuid is unique within a snapshot; the order of the records is free.
Snapshots ==
    { s \in UNION { [1..n -> Records] : n \in 0..MaxSnapshotLen } :
        \A i, j \in 1..Len(s) : s[i].uuid = s[j].uuid => i = j }

NoneData == [is_none |-> TRUE, records |-> <<>>]
SomeData(s) == [is_none |-> FALSE, records |-> s]

NoZone == "None"
ZoneNames == {"Office"}

-----------------------------------------------------------------------------
\* float(): the decimal strings of the model and their values in tenths.

Parsable == {"52.1", "51.9", "4.9"}

ParseError == [ok |-> FALSE, value |-> 0]

\* Mutant: a string that is no number is read as zero.
float_default(s) ==
    IF s \in Parsable
    THEN [ok |-> TRUE, value |-> IF s = "52.1" THEN 521 ELSE IF s = "51.9" THEN 519 ELSE 49]
    ELSE [ok |-> TRUE, value |-> 0]

float(s) ==
    IF s \in Parsable
    THEN [ok |-> TRUE, value |-> IF s = "52.1" THEN 521 ELSE IF s = "51.9" THEN 519 ELSE 49]
    ELSE ParseError

-----------------------------------------------------------------------------
\* One2TrackSensor properties.

\* Python truthiness of a zone name (None and "" are falsy) and of a dict.
TruthyZone(z) == z # NoZone /\ z # ""
TruthyDict(r) == DOMAIN r # {}

\* Mutants of location_name: the zone cache consulted before the WIFI rule,
\* and the zone cache returned without the address fallback.
location_name_zone_first(dev, zone) ==
    IF TruthyZone(zone) THEN zone
    ELSE IF dev.last_location.location_type = "WIFI" THEN "home"
    ELSE dev.last_location.address

location_name_no_fallback(dev, zone) ==
    IF dev.last_location.location_type = "WIFI" THEN "home" ELSE zone

\* Mutant: the address is preferred to the cached zone name.
location_name_address_first(dev, zone) ==
    IF dev.last_location.location_type = "WIFI" THEN "home"
    ELSE IF dev.last_location.address # "" THEN dev.last_location.address
    ELSE zone

location_name(dev, zone) ==
    IF dev.last_location.location_type = "WIFI" THEN "home"
    ELSE IF TruthyZone(zone) THEN zone
    ELSE dev.last_location.address

latitude(dev) == float(dev.last_location.latitude)

longitude(dev) == float(dev.last_location.longitude)

unique_id(dev) == dev.uuid

Entities == DOMAIN _device

-----------------------------------------------------------------------------
\* One2TrackSensor._update_from_latest_data: next(x for x in new_data if
\* x['uuid'] == self.unique_id, None), 0 standing for None.

\* Mutant: the first record is taken whatever its uuid.
FirstMatch_any(new_data, uid) == IF new_data = <<>> THEN 0 ELSE 1

FirstMatch(new_data, uid) ==
    LET I == { i \in 1..Len(new_data) : new_data[i].uuid = uid }
    IN  IF I = {} THEN 0 ELSE CHOOSE i \in I : \A j \in I : i <= j

\* Mutants of _update_from_latest_data: the new record merged into the old
\* one ({**old, **new}), and the first record taken when none matches.
_update_from_latest_data_merge(dev, new_data) ==
    LET me == FirstMatch(new_data, unique_id(dev))
    IN  IF me # 0 /\ TruthyDict(new_data[me])
        THEN [k \in DOMAIN dev \cup DOMAIN new_data[me] |->
                IF k \in DOMAIN new_data[me] THEN new_data[me][k] ELSE dev[k]]
        ELSE dev

_update_from_latest_data_first(dev, new_data) ==
    LET me == FirstMatch(new_data, unique_id(dev))
    IN  IF me # 0 /\ TruthyDict(new_data[me]) THEN new_data[me]
        ELSE IF new_data # <<>> THEN new_data[1] ELSE dev

\* Mutant: a record of a uuid that no entity has is adopted by an entity whose
\* own record is missing.
_update_from_latest_data_adopts(dev, new_data) ==
    LET me == FirstMatch(new_data, unique_id(dev))
        Extra == { i \in 1..Len(new_data) : new_data[i].uuid \notin Entities }
    IN  IF me # 0 /\ TruthyDict(new_data[me]) THEN new_data[me]
        ELSE IF Extra # {} THEN new_data[CHOOSE i \in Extra : TRUE] ELSE dev

\* The record the entity holds after the step.
_update_from_latest_data(dev, new_data) ==
    LET me == FirstMatch(new_data, unique_id(dev))
    IN  IF me # 0 /\ TruthyDict(new_data[me]) THEN new_data[me] ELSE dev

\* One2TrackSensor._async_update_zone up to its await: self.latitude and
\* self.longitude are read first; a ValueError of float() goes to the except
\* branch, otherwise the task waits for async_active_zone.
ZoneLookupStarts(dev) == latitude(dev).ok /\ longitude(dev).ok

ZoneTask(dev) == [latitude |-> latitude(dev).value, longitude |-> longitude(dev).value]

\* async_active_zone: the zone that holds the coordinates, if any.  The host
\* has one zone, around (52.1, 4.9).
async_active_zone(lat, lon) ==
    IF lat = 521 /\ lon = 49
    THEN [kind |-> "zone", name |-> CHOOSE z \in ZoneNames : TRUE]
    ELSE [kind |-> "null", name |-> NoZone]

\* One2TrackSensor._async_update_zone after its await: the lookup made for
\* the coordinates of task returns a zone or None, or it raises.
ZoneOutcomes(task) ==
    { async_active_zone(task.latitude, task.longitude),
      [kind |-> "raises", name |-> NoZone] }

\* Mutant: a lookup that raises leaves a placeholder name behind.
_async_update_zone_placeholder(outcome) ==
    IF outcome.kind = "zone" THEN outcome.name
    ELSE IF outcome.kind = "raises" THEN "unknown" ELSE NoZone

_async_update_zone(outcome) ==
    IF outcome.kind = "zone" THEN outcome.name ELSE NoZone

-----------------------------------------------------------------------------
\* What a step shows to the host and the log.

\* kind: "success" or "failure" for a refresh cycle that ended, "zone" for a
\* lookup that ended, "read" for a host read, "other" otherwise.  For a cycle:
\* cause is how gps_api.update() ended, update_failed counts the UpdateFailed
\* raised, changed and flipped are what _async_refresh compared, handled are
\* the entities whose _handle_coordinator_update was called and notified those
\* that reached async_schedule_update_ha_state.
Event(kind, cause, handled, notified) ==
    [kind |-> kind, cause |-> cause, handled |-> handled, notified |-> notified,
     update_failed |-> 0, changed |-> FALSE, flipped |-> FALSE,
     dev |-> "", lookup |-> "", label |-> "", lat |-> ParseError, lon |-> ParseError]

Quiet == Event("other", "", {}, {})

ReadEvent(d) ==
    [Quiet EXCEPT !.kind = "read", !.dev = d,
                  !.label = location_name(_device[d], _zone_name[d]),
                  !.lat = latitude(_device[d]),
                  !.lon = longitude(_device[d])]

-----------------------------------------------------------------------------
\* GpsCoordinator._async_update_data, from the return of gps_api.update():
\* whether it raises UpdateFailed, what it returns and what last_update is
\* afterwards.  fetch is what the await produced, lu the last_update before,
\* t the value of datetime.now().

FetchOk(s) == [ok |-> TRUE, snapshot |-> s, cause |-> "returned"]
FetchError(cause) == [ok |-> FALSE, snapshot |-> <<>>, cause |-> cause]

\* Mutant of _async_update_data: last_update assigned before the await.
_async_update_data_stamp_first(fetch, lu, t) ==
    IF fetch.ok
    THEN [raised |-> FALSE, result |-> SomeData(fetch.snapshot), last_update |-> t]
    ELSE [raised |-> TRUE, result |-> NoneData, last_update |-> t]

_async_update_data(fetch, lu, t) ==
    IF fetch.ok
    THEN IF update \/ first_boot
         THEN [raised |-> FALSE, result |-> SomeData(fetch.snapshot), last_update |-> t]
         ELSE [raised |-> FALSE, result |-> NoneData, last_update |-> lu]
    ELSE [raised |-> TRUE, result |-> NoneData, last_update |-> lu]

\* Inherited (DataUpdateCoordinator._async_refresh, after _async_update_data):
\* the listeners are called unless the cycle failed after a failed one, and
\* then when always_update is set, the success flag flipped, or the data
\* compares unequal to the data held when the cycle began.
\* Mutants of UpdateListeners: the behaviour of always_update=True, and the
\* data comparison left out.
UpdateListeners_always(prev_success, success, prev_data, new_data) ==
    ~(~success /\ ~prev_success)

UpdateListeners_flag_only(prev_success, success, prev_data, new_data) ==
    /\ ~(~success /\ ~prev_success)
    /\ success # prev_success

UpdateListeners(prev_success, success, prev_data, new_data) ==
    /\ ~(~success /\ ~prev_success)
    /\ \/ always_update
       \/ success # prev_success
       \/ prev_data # new_data

\* A refresh cycle that awaits gps_api.update(): _async_refresh keeps the
\* success flag and the data it saw when it began.
Refresh(origin) ==
    [origin |-> origin, prev_success |-> last_update_success, prev_data |-> data]

\* Inherited (the finally clause of _async_refresh): whether the cycle raised
\* or not, the timer is armed for the next interval when there are listeners.
\* Mutant: a cycle that ends arms nothing.
_schedule_refresh_never(ls, tm) == tm

_schedule_refresh(ls, tm) == ls # {} \/ tm

Without(seq, i) == SubSeq(seq, 1, i - 1) \o SubSeq(seq, i + 1, Len(seq))

-----------------------------------------------------------------------------
\* One2TrackSensor._handle_coordinator_update of every listener, called in
\* turn by the inherited async_update_listeners with the coordinator's data
\* dat: _update_from_latest_data, async_schedule_update_ha_state, and the
\* _async_update_zone task run up to its await.  With dat None the first
\* handler raises TypeError in _update_from_latest_data and the call ends.

Reconciled(d, dat) == _update_from_latest_data(_device[d], dat.records)

\* The listeners among ls whose handler reaches async_schedule_update_ha_state:
\* the call follows _update_from_latest_data and precedes the creation of the
\* _async_update_zone task, which the handler does not await.
\* Mutant: the host is told only once the zone task got past its coordinates.
Notified_after_zone(ls, dat) ==
    { d \in ls : ZoneLookupStarts(Reconciled(d, dat)) }

Notified(ls, dat) == IF dat.is_none THEN {} ELSE ls

_handle_coordinator_update(dat, ev) ==
    IF listeners = {}
    THEN /\ event' = ev
         /\ UNCHANGED <<_device, _zone_name, zone_tasks>>
    ELSE IF dat.is_none
    THEN /\ \E d \in listeners : event' = [ev EXCEPT !.handled = {d}]
         /\ UNCHANGED <<_device, _zone_name, zone_tasks>>
    ELSE /\ \A d \in listeners :
              ZoneLookupStarts(Reconciled(d, dat)) => Len(zone_tasks[d]) < MaxTasks
         /\ _device' = [d \in Entities |->
                IF d \in listeners THEN Reconciled(d, dat) ELSE _device[d]]
         /\ _zone_name' = [d \in Entities |->
                IF d \in listeners /\ ~ZoneLookupStarts(Reconciled(d, dat))
                THEN NoZone ELSE _zone_name[d]]
         /\ zone_tasks' = [d \in Entities |->
                IF d \in listeners /\ ZoneLookupStarts(Reconciled(d, dat))
                THEN Append(zone_tasks[d], ZoneTask(Reconciled(d, dat)))
                ELSE zone_tasks[d]]
         /\ event' = [ev EXCEPT !.handled = listeners,
                                !.notified = Notified(listeners, dat)]

-----------------------------------------------------------------------------
\* The state after async_setup_entry: gps_api.update() returned the snapshot
\* devices, the coordinator is constructed with first_boot = True and one
\* One2TrackSensor exists per record.

Init ==
    \E devices \in Snapshots :
        /\ data = NoneData
        /\ last_update = 0
        /\ first_boot = TRUE
        /\ last_update_success = TRUE
        /\ listeners = {}
        /\ timer = FALSE
        /\ refreshes = <<>>
        /\ now = 0
        /\ _device = [u \in { devices[i].uuid : i \in 1..Len(devices) } |->
                         devices[FirstMatch(devices, u)]]
        /\ _zone_name = [u \in { devices[i].uuid : i \in 1..Len(devices) } |-> NoZone]
        /\ zone_tasks = [u \in { devices[i].uuid : i \in 1..Len(devices) } |-> <<>>]
        /\ removed = {}
        /\ event = Event("init", "", {}, {})

\* One2TrackSensor.async_added_to_hass: the inherited method subscribes
\* _handle_coordinator_update; the first listener arms the refresh timer.
\* async_setup_entry adds the entities with update_before_add=True, so a
\* refresh was requested before: it has ended, or it is still outstanding
\* when the request of this entity found the debouncer busy.
async_added_to_hass(d) ==
    /\ d \in Entities \ (listeners \cup removed)
    /\ now >= 1 \/ \E i \in 1..Len(refreshes) : refreshes[i].origin = "requested"
    /\ listeners' = listeners \cup {d}
    /\ timer' = (listeners = {} \/ timer)
    /\ event' = Quiet
    /\ UNCHANGED <<data, last_update, first_boot, last_update_success, refreshes, now,
                   _device, _zone_name, zone_tasks, removed>>

\* One2TrackSensor.async_will_remove_from_hass: the entity is torn down and
\* its listener is unsubscribed; the timer stops with the last listener.
\* The entity's _async_update_zone tasks are left as they are.
async_will_remove_from_hass(d) ==
    /\ d \in listeners
    /\ listeners' = listeners \ {d}
    /\ removed' = removed \cup {d}
    /\ timer' = (listeners' # {} /\ timer)
    /\ event' = Quiet
    /\ UNCHANGED <<data, last_update, first_boot, last_update_success, refreshes, now,
                   _device, _zone_name, zone_tasks>>

\* Mutant of Tick: every listening entity polls the account for itself.
Tick_per_listener ==
    /\ timer
    /\ now + Len(refreshes) < MaxClock
    /\ timer' = FALSE
    /\ refreshes' = refreshes \o [k \in 1..Cardinality(listeners) |-> Refresh("scheduled")]
    /\ event' = Quiet
    /\ UNCHANGED <<data, last_update, first_boot, last_update_success, listeners, now,
                   _device, _zone_name, zone_tasks, removed>>

\* Inherited: the refresh timer fires and a scheduled cycle begins; it disarms
\* the timer and awaits gps_api.update() in _async_update_data.
Tick ==
    /\ timer
    /\ now + Len(refreshes) < MaxClock
    /\ Len(refreshes) < MaxFetches
    /\ timer' = FALSE
    /\ refreshes' = Append(refreshes, Refresh("scheduled"))
    /\ event' = Quiet
    /\ UNCHANGED <<data, last_update, first_boot, last_update_success, listeners, now,
                   _device, _zone_name, zone_tasks, removed>>

\* Inherited: an entity's async_update (update_before_add=True in
\* async_setup_entry, or the host's update service) asks the coordinator for
\* a refresh.  The debouncer lets one requested cycle run at a time.
RequestRefresh ==
    /\ Entities \ removed # {}
    /\ \A i \in 1..Len(refreshes) : refreshes[i].origin # "requested"
    /\ now + Len(refreshes) < MaxClock
    /\ Len(refreshes) < MaxFetches
    /\ timer' = FALSE
    /\ refreshes' = Append(refreshes, Refresh("requested"))
    /\ event' = Quiet
    /\ UNCHANGED <<data, last_update, first_boot, last_update_success, listeners, now,
                   _device, _zone_name, zone_tasks, removed>>

\* The await of cycle i ends with fetch: _async_update_data runs to its end,
\* then the inherited _async_refresh records the outcome, re-arms the timer
\* when there are listeners and calls the listeners.
RefreshDone(i, fetch) ==
    LET r == refreshes[i]
        u == _async_update_data(fetch, last_update, now + 1)
        success == ~u.raised
        new_data == IF u.raised THEN data ELSE u.result
        ev == [Event(IF success THEN "success" ELSE "failure", fetch.cause, {}, {})
                 EXCEPT !.update_failed = IF u.raised THEN 1 ELSE 0,
                        !.changed = (r.prev_data # new_data),
                        !.flipped = (r.prev_success # success)]
    IN  /\ now' = now + 1
        /\ refreshes' = Without(refreshes, i)
        /\ last_update' = u.last_update
        /\ data' = new_data
        /\ last_update_success' = success
        /\ timer' = _schedule_refresh(listeners, timer)
        /\ IF UpdateListeners(r.prev_success, success, r.prev_data, new_data)
           THEN _handle_coordinator_update(new_data, ev)
           ELSE /\ event' = ev
                /\ UNCHANGED <<_device, _zone_name, zone_tasks>>
        /\ UNCHANGED <<first_boot, listeners, removed>>

FetchSucceeds ==
    \E i \in 1..Len(refreshes), s \in Snapshots : RefreshDone(i, FetchOk(s))

FetchFails ==
    \E i \in 1..Len(refreshes), cause \in {"raised", "timeout"} :
        RefreshDone(i, FetchError(cause))

\* The lookup of task i of entity d ends: _async_update_zone assigns
\* _zone_name, whether or not the entity is still in the host.
ZoneLookupDone(d, i, outcome) ==
    /\ _zone_name' = [_zone_name EXCEPT ![d] = _async_update_zone(outcome)]
    /\ zone_tasks' = [zone_tasks EXCEPT ![d] = Without(zone_tasks[d], i)]
    /\ event' = [Quiet EXCEPT !.kind = "zone", !.dev = d, !.lookup = outcome.kind]
    /\ UNCHANGED <<data, last_update, first_boot, last_update_success, listeners,
                   timer, refreshes, now, _device, removed>>

ZoneLookupReturns ==
    \E d \in Entities : \E i \in 1..Len(zone_tasks[d]) :
        \E outcome \in ZoneOutcomes(zone_tasks[d][i]) : ZoneLookupDone(d, i, outcome)

\* The host reads the entity's properties: location_name, latitude, longitude.
HostRead ==
    \E d \in Entities :
        /\ event' = ReadEvent(d)
        /\ UNCHANGED <<data, last_update, first_boot, last_update_success, listeners,
                       timer, refreshes, now, _device, _zone_name, zone_tasks, removed>>

Next ==
    \/ \E d \in Entities : async_added_to_hass(d)
    \/ \E d \in Entities : async_will_remove_from_hass(d)
    \/ Tick
    \/ RequestRefresh
    \/ FetchSucceeds
    \/ FetchFails
    \/ ZoneLookupReturns
    \/ HostRead

Spec == Init /\ [][Next]_vars

\* The step ended a refresh cycle in which entity d's handler ran against a
\* snapshot.
Handled(ev, dat, d) ==
    ev.kind \in {"success", "failure"} /\ d \in ev.handled /\ ~dat.is_none

-----------------------------------------------------------------------------
\* C1: when an entity's handler has reconciled against a snapshot that holds a
\* record with the entity's uuid, the entity's cached record is exactly that
\* record, with no key or value of the record cached before.
C1_WholesaleReplacement ==
    \A d \in Entities :
        (event.kind \in {"success", "failure"} /\ d \in event.notified /\ ~data.is_none) =>
            \A i \in 1..Len(data.records) :
                data.records[i].uuid = d => _device[d] = data.records[i]

\* a1 was reconciled in a second cycle against a record that lacks a key
\* ("phone_number") which a1's records can carry.
C1_Witness ==
    /\ event.kind = "success" /\ "a1" \in event.notified /\ now = 2
    /\ \E i \in 1..Len(data.records) :
          /\ data.records[i].uuid = "a1"
          /\ "phone_number" \notin DOMAIN data.records[i]
          /\ _device["a1"] = data.records[i]

\* C2: a handler run against a snapshot with no record of the entity's uuid
\* (the empty snapshot included) leaves the entity's cached record as it was,
\* however often it is repeated.
C2_HoldLastKnown ==
    [][\A d \in Entities :
          (event'.kind \in {"success", "failure"} /\ d \in event'.notified /\ ~data'.is_none
             /\ \A i \in 1..Len(data'.records) : data'.records[i].uuid # d)
          => _device'[d] = _device[d]]_vars

\* a1 has been reconciled a second time against a snapshot without a1.
C2_Witness ==
    /\ event.kind \in {"success", "failure"} /\ "a1" \in event.notified /\ now = 2 /\ ~data.is_none
    /\ \A i \in 1..Len(data.records) : data.records[i].uuid # "a1"
    /\ _device["a1"].uuid = "a1"

\* C3: a host read of the location label of an entity whose cached record has
\* location_type WIFI returns "home", whatever zone name is cached.
C3_WifiIsHome ==
    (event.kind = "read" /\ _device[event.dev].last_location.location_type = "WIFI")
        => event.label = "home"

\* The label of a WIFI record was read while a zone name was cached.
C3_Witness ==
    /\ event.kind = "read"
    /\ _device[event.dev].last_location.location_type = "WIFI"
    /\ _zone_name[event.dev] = "Office"
    /\ event.label = "home"

\* C4: a host read of the location label of an entity whose cached record is
\* not of type WIFI and whose zone cache holds no zone returns the record's
\* address.
C4_AddressFallback ==
    (/\ event.kind = "read"
     /\ _device[event.dev].last_location.location_type # "WIFI"
     /\ _zone_name[event.dev] = NoZone)
        => event.label = _device[event.dev].last_location.address

\* The label of a GPS record was read after a cycle, with no zone cached.
C4_Witness ==
    /\ event.kind = "read" /\ now >= 1
    /\ _device[event.dev].last_location.location_type = "GPS"
    /\ _zone_name[event.dev] = NoZone
    /\ event.label = "456 Oak"

\* C5: a cycle whose fetch raises or times out raises UpdateFailed once and
\* leaves the coordinator's data and last_update as they were.
C5_FailureKeepsSnapshot ==
    [][event'.cause \in {"raised", "timeout"} =>
          /\ event'.kind = "failure" /\ event'.update_failed = 1
          /\ data' = data /\ last_update' = last_update]_vars

\* A cycle failed after one that had succeeded.
C5_Witness ==
    /\ event.kind = "failure" /\ event.cause = "timeout"
    /\ ~data.is_none /\ last_update = 1 /\ now = 2

\* C6 (as claimed): a cycle whose fetch fails raises UpdateFailed once and no
\* entity's _handle_coordinator_update is called.
C6_NoHandlerOnFailure ==
    event.kind = "failure" => (event.update_failed = 1 /\ event.handled = {})

C8_FirstSuccessPublished ==
    [][(event'.kind = "success" /\ last_update = 0) => event'.handled = listeners]_vars

\* The first success came after a failed cycle and reached the listeners.
C8_Witness ==
    /\ event.kind = "success" /\ event.flipped /\ now = 2 /\ last_update = 2
    /\ listeners # {} /\ event.handled = listeners

\* C9 (as claimed): at most one gps_api.update() is outstanding.
C9_NoOverlappingFetches == Len(refreshes) <= 1

\* C10 (as claimed): once an entity is torn down, no lookup that ends changes
\* its cached zone name.
C10_NoWriteAfterTeardown ==
    [][\A d \in removed : _zone_name'[d] = _zone_name[d]]_vars

\* C11: in every handler run against a snapshot the host is notified within
\* the handler, before the zone lookup of that run has ended: the lookup is
\* still outstanding when its coordinates parse, and the notification is made
\* all the same when the lookup fails on its coordinates.
C11_NotifiedWithoutLookup ==
    \A d \in Entities :
        Handled(event, data, d) =>
            /\ d \in event.notified
            /\ ZoneLookupStarts(_device[d]) => Len(zone_tasks[d]) >= 1

\* Both entities were notified in one cycle: a1 with its lookup outstanding,
\* b2 with a lookup that failed on its longitude.
C11_Witness ==
    /\ event.kind = "success" /\ event.notified = {"a1", "b2"}
    /\ Len(zone_tasks["a1"]) >= 1 /\ ~ZoneLookupStarts(_device["b2"])

\* C12: a zone lookup that raises sets the entity's cached zone name to
\* no-zone and changes nothing else but the task that ended: the coordinator,
\* every cached record and every other entity are as before, and a label read
\* of a record that is not WIFI gives the address.  The same holds for a
\* lookup that fails on a coordinate that is no number: the zone name is
\* no-zone, the label is the address and every listener's handler has run.
C12_LookupFailureSwallowed ==
    [][/\ (event'.kind = "zone" /\ event'.lookup = "raises") =>
            LET d == event'.dev
            IN  /\ _zone_name'[d] = NoZone
                /\ _device' = _device
                /\ UNCHANGED <<data, last_update, first_boot, last_update_success,
                               listeners, timer, refreshes, now, removed>>
                /\ \A e \in Entities \ {d} :
                      _zone_name'[e] = _zone_name[e] /\ zone_tasks'[e] = zone_tasks[e]
                /\ _device'[d].last_location.location_type # "WIFI" =>
                      location_name(_device'[d], _zone_name'[d])
                          = _device'[d].last_location.address
       /\ \A d \in Entities :
            (Handled(event', data', d) /\ ~ZoneLookupStarts(_device'[d])) =>
                /\ _zone_name'[d] = NoZone
                /\ zone_tasks'[d] = zone_tasks[d]
                /\ event'.handled = listeners /\ event'.notified = listeners
                /\ _device'[d].last_location.location_type # "WIFI" =>
                      location_name(_device'[d], _zone_name'[d])
                          = _device'[d].last_location.address
      ]_vars

\* A lookup of a1 raised while a1 held a zone name and its GPS record.
C12_Witness ==
    /\ event.kind = "zone" /\ event.lookup = "raises" /\ event.dev = "a1"
    /\ _device["a1"].last_location.location_type = "GPS"
    /\ _zone_name["a1"] = NoZone /\ now = 2

\* C13: while an entity's cached zone name is a zone Z, every label read of
\* the entity with a record that is not WIFI gives Z, and the cached name
\* stays Z in every step but the end of a lookup of that entity (a lookup
\* that returns or raises, or one that fails on its coordinates).
C13_ZoneNameUntilNextLookup ==
    [][\A d \in Entities :
          _zone_name[d] \in ZoneNames =>
            /\ (/\ event'.kind = "read" /\ event'.dev = d
                /\ _device[d].last_location.location_type # "WIFI") =>
                    event'.label = _zone_name[d]
            /\ (/\ ~(event'.kind = "zone" /\ event'.dev = d)
                /\ ~(Handled(event', data', d) /\ ~ZoneLookupStarts(_device'[d]))) =>
                    _zone_name'[d] = _zone_name[d]
      ]_vars

\* a1 was read with its GPS record after a lookup had returned the zone.
C13_Witness ==
    /\ event.kind = "read" /\ event.dev = "a1"
    /\ _device["a1"].last_location.location_type = "GPS"
    /\ _zone_name["a1"] = "Office" /\ event.label = "Office"

\* C14: a latitude or longitude read of a record whose string is no number
\* gives the parse error and no value; and a handler run against a snapshot
\* whose record for the entity holds such a string stores that record,
\* notifies the host, and every other listener is reconciled and notified.
C14_MalformedCoordinate ==
    /\ event.kind = "read" =>
          /\ _device[event.dev].last_location.latitude \notin Parsable =>
                event.lat = ParseError
          /\ _device[event.dev].last_location.longitude \notin Parsable =>
                event.lon = ParseError
    /\ \A d \in Entities :
          (/\ Handled(event, data, d)
           /\ \E i \in 1..Len(data.records) :
                 /\ data.records[i].uuid = d
                 /\ \/ data.records[i].last_location.latitude \notin Parsable
                    \/ data.records[i].last_location.longitude \notin Parsable) =>
              /\ _device[d] = data.records[FirstMatch(data.records, d)]
              /\ event.handled = listeners /\ event.notified = listeners
              /\ \A e \in listeners : \A j \in 1..Len(data.records) :
                    data.records[j].uuid = e => _device[e] = data.records[j]

\* a1's latitude was read after a cycle had stored its record with a latitude
\* that is no number, b2 listening to the same cycle.
C14_Witness ==
    /\ event.kind = "read" /\ event.dev = "a1"
    /\ event.lat = ParseError /\ event.lon # ParseError
    /\ listeners = {"a1", "b2"} /\ ~data.is_none
    /\ \E i \in 1..Len(data.records) :
          data.records[i] = _device["a1"] /\ _device["a1"].last_location.latitude = "bad"

C16_FirstBootCleared == last_update >= 1 => ~first_boot

\* C17: a cycle that fails ends without another fetch being begun for it,
\* and with the timer armed when there are listeners, so that the next tick
\* fetches again; and a cycle that began while the success flag was down
\* and whose fetch succeeds calls the handler of every listener with its
\* snapshot.
C17_FailureThenRecovery ==
    [][/\ event'.kind = "failure" =>
            /\ Len(refreshes') = Len(refreshes) - 1
            /\ listeners # {} => timer'
       /\ (event'.kind = "success" /\ event'.flipped) =>
            /\ ~data'.is_none
            /\ event'.handled = listeners /\ event'.notified = listeners
      ]_vars

\* The first cycle failed, the second succeeded with an entity listening.
C17_Witness ==
    /\ event.kind = "success" /\ event.flipped /\ now = 2
    /\ event.notified = listeners /\ listeners # {} /\ timer

\* C18: the unique_id of every entity, the uuid of its cached record, is the
\* uuid of the record the entity was created with.
C18_UniqueIdFixed == \A d \in Entities : unique_id(_device[d]) = d

\* a1 was reconciled against a snapshot whose first record is b2's.
C18_Witness ==
    /\ Handled(event, data, "a1") /\ Len(data.records) = 2
    /\ data.records[1].uuid = "b2" /\ _device["a1"] = data.records[2]

\* C19: when the last outstanding lookup of an entity has ended, the cached
\* zone name is what the lookup begun by the latest handler run gave: the
\* zone of the coordinates of the cached record, or no-zone when that lookup
\* raised.
C19_LatestLookupWins ==
    \A d \in Entities :
        (/\ event.kind = "zone" /\ event.dev = d
         /\ zone_tasks[d] = <<>> /\ ZoneLookupStarts(_device[d])) =>
            _zone_name[d] \in
                { async_active_zone(latitude(_device[d]).value,
                                    longitude(_device[d]).value).name, NoZone }

\* C20: no step adds or drops an entity: the entities are those of the
\* records of the setup snapshot.  A handler run against a snapshot that
\* holds a record of a uuid without entity leaves the entity's cached record
\* as it was or replaces it by the record of the entity's own uuid.
C20_DevicesFixedAtSetup ==
    [][/\ DOMAIN _device' = DOMAIN _device
       /\ DOMAIN _zone_name' = DOMAIN _device /\ DOMAIN zone_tasks' = DOMAIN _device
       /\ \A d \in Entities :
            (/\ Handled(event', data', d)
             /\ \E j \in 1..Len(data'.records) : data'.records[j].uuid \notin Entities) =>
                \/ _device'[d] = _device[d]
                \/ \E i \in 1..Len(data'.records) :
                      data'.records[i].uuid = d /\ _device'[d] = data'.records[i]
      ]_vars

\* a1 is the only entity and was reconciled against a snapshot with a record
\* of b2 and none of a1.
C20_Witness ==
    /\ Entities = {"a1"} /\ Handled(event, data, "a1")
    /\ Len(data.records) = 1 /\ data.records[1].uuid = "b2"
====
